---- MODULE Spec2Model ----
(***************************************************************************)
(* A model of slack-bot/ralph_slack_bot.py: the feedback-file merge        *)
(* (_write_feedback), the thread registry and the message handler          *)
(* (handle_message), and the PID-file singleton (_acquire_pid_lock,        *)
(* _release_pid_lock, is_bot_running, get_bot_pid).                        *)
(*                                                                         *)
(* Text is modelled as a sequence of tokens.  A token is one of the fixed  *)
(* strings the code searches for or writes ("## Pending", "## Processed", *)
(* the bullet prefix "- [ts] @user: ", the skeleton's title), a newline,   *)
(* a space, or an opaque word that contains none of these.                 *)
(***************************************************************************)
EXTENDS Naturals, Integers, Sequences, FiniteSets, Bags, TLC

VARIABLES
    files,        \* feedback documents on disk: path -> [exists, text]
    now,          \* the minute datetime.now() returned last
    orig,         \* history: the files as they were initially
    log,          \* history: per path, the bullets written so far, in call order
    trackerFile,  \* the tracker file on disk (slack_threads.json)
    threads,      \* self.threads
    threadToPlan, \* self._thread_to_plan
    pc,           \* where handle_message is: "idle", "resolve", "write", "ack"
    cur,          \* the event being handled (or handled last) and its locals
    result,       \* how the last handle_message ended
    acks,         \* the acknowledgments say() has delivered, in order
    handled,      \* number of events delivered to handle_message
    atStart,      \* history: files, tracker file and index when the event arrived
    wrote,        \* history: the bullet the current handler wrote, if any
    changes,      \* number of times a sibling process rewrote the tracker file
    proc,         \* per bot process: where it is in run() and at exit
    handle,       \* per bot process: the inode self._pid_file_handle is open on, 0 if none
    pidFile,      \* the inode the PID file path names, 0 if the path does not exist
    written,      \* per inode: the pid written in it, 0 if it is empty
    flock,        \* per inode: the process holding the exclusive lock, 0 if none
    chk,          \* where the status command is: "idle", "unlink", "getpid"
    status,       \* what the status command found last
    crashed,      \* history: the processes killed while they held the lock
    rd            \* per concurrent _write_feedback call: where it is, what it read

feedbackVars == <<files, now, orig, log>>

botVars == <<trackerFile, threads, threadToPlan, pc, cur, result, acks, handled,
            atStart, wrote, changes>>

lockVars == <<proc, handle, pidFile, written, flock, chk, status, crashed>>

vars == <<files, now, orig, log, trackerFile, threads, threadToPlan, pc, cur,
          result, acks, handled, atStart, wrote, changes,
          proc, handle, pidFile, written, flock, chk, status, crashed, rd>>

----------------------------------------------------------------------------
(* Bounds *)

MaxLines == 4       \* lines of an initial feedback document
MaxAppends == 2     \* _write_feedback calls in one behaviour
MaxClock == 1       \* the last minute of the clock (it starts at 0)
MaxEvents == 1      \* events delivered to handle_message in one behaviour
MaxChanges == 1     \* rewrites of the tracker file by sibling processes
NumProcs == 3       \* bot processes started in the same scope
MaxEntries == 2     \* members of the object in a tracker file

----------------------------------------------------------------------------
(* Tokens and text *)

Tok(k, ts, u, c) == [k |-> k, ts |-> ts, u |-> u, c |-> c]

NL == Tok("nl", 0, "", "")
SP == Tok("sp", 0, "", "")
PENDING == Tok("pending", 0, "", "")
PROCESSED == Tok("processed", 0, "", "")
Title(stem) == Tok("title", 0, "", stem)
BulletHead(ts, u) == Tok("head", ts, u, "")
Word(c) == Tok("word", 0, "", c)

IsWhite(t) == t.k \in {"nl", "sp"}

\* A message text is a sequence of characters: "sp", "nl" or a word.
CharTok(c) == IF c = "sp" THEN SP ELSE IF c = "nl" THEN NL ELSE Word(c)

TextToks(msg) == [i \in 1..Len(msg) |-> CharTok(msg[i])]

\* str.lstrip(): drops the leading whitespace
RECURSIVE LStrip(_)
LStrip(s) == IF s # <<>> /\ IsWhite(Head(s)) THEN LStrip(Tail(s)) ELSE s

\* str.strip() of a message text (a sequence of characters)
RECURSIVE LStripChars(_)
LStripChars(m) ==
    IF m # <<>> /\ Head(m) \in {"sp", "nl"} THEN LStripChars(Tail(m)) ELSE m

RECURSIVE RStripChars(_)
RStripChars(m) ==
    IF m # <<>> /\ m[Len(m)] \in {"sp", "nl"}
    THEN RStripChars(SubSeq(m, 1, Len(m) - 1))
    ELSE m

Strip(m) == RStripChars(LStripChars(m))

\* The index of the first token of kind k in s, 0 when there is none
\* (what `"## Pending" in content` and content.split("## Pending", 1) find).
FirstIndex(s, k) ==
    IF \E i \in 1..Len(s) : s[i].k = k
    THEN CHOOSE i \in 1..Len(s) :
            /\ s[i].k = k
            /\ \A j \in 1..(i - 1) : s[j].k # k
    ELSE 0

----------------------------------------------------------------------------
(* Plan files and feedback files *)

\* A plan path is its directory, its stem and its suffix (pathlib's parent,
\* stem and suffix).
Plan(dir, stem, ext) == [dir |-> dir, stem |-> stem, ext |-> ext]

PlanA == Plan("/t", "plan", ".md")
PlanB == Plan("/t", "plan", ".txt")
PlanC == Plan("/u", "plan", ".md")

Plans == {PlanA, PlanB, PlanC}

\* A variant that puts every feedback file in the directory of the first plan.
GetFeedbackFileInFirstDir(plan) == [dir |-> "/t", name |-> <<plan.stem, ".feedback.md">>]

\* plan_path.parent / f"{plan_path.stem}.feedback.md"
GetFeedbackFile(plan) == [dir |-> plan.dir, name |-> <<plan.stem, ".feedback.md">>]

\* The paths a feedback file may have: a plan's directory, a plan's stem.
FeedbackPaths ==
    {[dir |-> p.dir, name |-> <<q.stem, ".feedback.md">>] : p \in Plans, q \in Plans}

Absent == [exists |-> FALSE, text |-> <<>>]

File(text) == [exists |-> TRUE, text |-> text]

\* f"# Feedback: {plan_name}\n\n## Pending\n\n## Processed\n"
Skeleton(plan) == <<Title(plan.stem), NL, NL, PENDING, NL, NL, PROCESSED, NL>>

\* f"- [{timestamp}] @{user}: {message}\n"
Bullet(ts, user, msg) == <<BulletHead(ts, user)>> \o TextToks(msg) \o <<NL>>

\* A variant that adds the bullet at the end of the document, wherever
\* the Pending section is.
NewContentAtDocEnd(content, ts, user, msg) ==
    IF FirstIndex(content, "pending") > 0
    THEN content \o Bullet(ts, user, msg)
    ELSE content \o <<NL, PENDING, NL>> \o Bullet(ts, user, msg)

\* A variant that adds the bullet at the end of the Pending body: before the
\* next "## Processed", or at the end of the document when there is none.
NewContentAtBodyEnd(content, ts, user, msg) ==
    LET i == FirstIndex(content, "pending")
        before == SubSeq(content, 1, i - 1)
        after == SubSeq(content, i + 1, Len(content))
        j == FirstIndex(after, "processed")
    IN  IF i = 0 THEN content \o <<NL, PENDING, NL>> \o Bullet(ts, user, msg)
        ELSE IF j = 0 THEN before \o <<PENDING>> \o after \o Bullet(ts, user, msg)
        ELSE before \o <<PENDING>> \o SubSeq(after, 1, j - 1)
                \o Bullet(ts, user, msg) \o SubSeq(after, j, Len(after))

\* A variant that, finding no "## Pending", adds both sections of the skeleton.
NewContentWithProcessed(content, ts, user, msg) ==
    LET i == FirstIndex(content, "pending")
        before == SubSeq(content, 1, i - 1)
        after == SubSeq(content, i + 1, Len(content))
    IN  IF i > 0
        THEN before \o <<PENDING, NL>> \o Bullet(ts, user, msg) \o LStrip(after)
        ELSE content \o <<NL, PENDING, NL>> \o Bullet(ts, user, msg) \o <<NL, PROCESSED, NL>>

\* A variant that leaves the "## Pending" it found at the head of what follows.
NewContentHeaderKept(content, ts, user, msg) ==
    LET i == FirstIndex(content, "pending")
        before == SubSeq(content, 1, i - 1)
        after == SubSeq(content, i, Len(content))
    IN  IF i > 0
        THEN before \o <<PENDING, NL>> \o Bullet(ts, user, msg) \o LStrip(after)
        ELSE content \o <<NL, PENDING, NL>> \o Bullet(ts, user, msg)

\* The new content _write_feedback computes from the content it read.
NewContent(content, ts, user, msg) ==
    LET i == FirstIndex(content, "pending")
        before == SubSeq(content, 1, i - 1)
        after == SubSeq(content, i + 1, Len(content))
    IN  IF i > 0
        THEN before \o <<PENDING, NL>> \o Bullet(ts, user, msg) \o LStrip(after)
        ELSE content \o <<NL, PENDING, NL>> \o Bullet(ts, user, msg)

\* The content _write_feedback starts from: the file's, or the skeleton.
ReadContent(fs, plan) ==
    IF fs[GetFeedbackFile(plan)].exists
    THEN fs[GetFeedbackFile(plan)].text
    ELSE Skeleton(plan)

\* The file system after _write_feedback(plan_file, user, message) at minute ts.
WriteFeedback(fs, plan, ts, user, msg) ==
    [fs EXCEPT ![GetFeedbackFile(plan)] =
        File(NewContent(ReadContent(fs, plan), ts, user, msg))]

----------------------------------------------------------------------------
(* Reading a feedback document: its lines, sections and bullets *)

RECURSIVE SplitLines(_)
SplitLines(s) ==
    IF s = <<>> THEN <<>>
    ELSE LET i == FirstIndex(s, "nl")
         IN  IF i = 0 THEN <<s>>
             ELSE <<SubSeq(s, 1, i - 1)>> \o SplitLines(SubSeq(s, i + 1, Len(s)))

\* "pending" or "processed" for a section header line, "head" for a bullet
\* line, "blank" or "text" for the others; indentation is ignored.
LineKind(line) ==
    LET t == LStrip(line)
    IN  IF t = <<>> THEN "blank"
        ELSE IF t[1].k \in {"pending", "processed", "head"} THEN t[1].k
        ELSE "text"

\* The bullet lines (without indentation) under the headers of kind sect,
\* top to bottom; sec is the section the first line of ls is in.
RECURSIVE BulletsIn(_, _, _)
BulletsIn(ls, sect, sec) ==
    IF ls = <<>> THEN <<>>
    ELSE LET k == LineKind(Head(ls))
         IN  IF k \in {"pending", "processed"} THEN BulletsIn(Tail(ls), sect, k)
             ELSE IF k = "head" /\ sec = sect
                  THEN <<LStrip(Head(ls))>> \o BulletsIn(Tail(ls), sect, sec)
                  ELSE BulletsIn(Tail(ls), sect, sec)

PendingBullets(text) == BulletsIn(SplitLines(text), "pending", "none")

ProcessedBullets(text) == BulletsIn(SplitLines(text), "processed", "none")

\* The text of the Processed section: what follows the first "## Processed"
\* up to the next "## Pending" or the end of the document.
ProcessedText(text) ==
    LET i == FirstIndex(text, "processed")
        rest == SubSeq(text, i + 1, Len(text))
        j == FirstIndex(rest, "pending")
    IN  IF i = 0 THEN <<>>
        ELSE IF j = 0 THEN rest
        ELSE SubSeq(rest, 1, j - 1)

CountKind(text, k) == Cardinality({i \in 1..Len(text) : text[i].k = k})

HasBothSections(text) == CountKind(text, "pending") > 0 /\ CountKind(text, "processed") > 0

\* The line a written bullet starts with (all of it when the message has one line).
BulletLine(b) == Head(SplitLines(Bullet(b.ts, b.user, b.msg)))

BulletLines(bs) == [i \in 1..Len(bs) |-> BulletLine(bs[i])]

Reverse(s) == [i \in 1..Len(s) |-> s[Len(s) + 1 - i]]

SeqToBag(s) ==
    [x \in {s[i] : i \in 1..Len(s)} |-> Cardinality({i \in 1..Len(s) : s[i] = x})]

----------------------------------------------------------------------------
(* The thread registry *)

\* A value stored in the tracker object: a JSON object that may have a
\* "thread_ts" and a "channel" member, or some other JSON value.
Val(isDict, hasTs, hasCh, ts, ch) ==
    [isDict |-> isDict, hasTs |-> hasTs, hasCh |-> hasCh, ts |-> ts, ch |-> ch]

Thread(ch, ts) == Val(TRUE, TRUE, TRUE, ts, ch)
NoChannel(ts) == Val(TRUE, TRUE, FALSE, ts, <<>>)
NotADict == Val(FALSE, FALSE, FALSE, <<>>, <<>>)

Entry(plan, val) == [key |-> plan, val |-> val]

\* The tracker file: missing, not JSON ("garbage"), a JSON array, or a JSON
\* object given by its members in order.
Tracker(kind, entries) == [kind |-> kind, entries |-> entries]

Chan1 == <<"C1">>
Chan2 == <<"C2">>
Ts1 == <<"100.1">>
Ts2 == <<"200.2">>

TrackerFiles ==
    { Tracker("missing", <<>>),
      Tracker("array", <<>>),
      Tracker("object", <<Entry(PlanA, Thread(Chan1, Ts1))>>),
      Tracker("object", <<Entry(PlanA, Thread(Chan1, Ts1)), Entry(PlanC, Thread(Chan1, Ts2))>>),
      Tracker("object", <<Entry(PlanB, Thread(Chan2, Ts1)), Entry(PlanA, NoChannel(Ts2)),
                          Entry(PlanC, NotADict)>>) }

\* _load_threads: json.loads of the file, {} when it is missing or not JSON.
\* The value is a dict with its items in order, or a list.
LoadThreads(file) ==
    IF file.kind = "object" THEN [kind |-> "dict", entries |-> file.entries]
    ELSE IF file.kind = "array" THEN [kind |-> "list", entries |-> <<>>]
    ELSE [kind |-> "dict", entries |-> <<>>]

\* f"{channel}:{thread_ts}"
ThreadKey(ch, ts) == ch \o <<":">> \o ts

\* A variant that asks for the "thread_ts" member only.
IsThreadRecordTsOnly(v) == v.isDict /\ v.hasTs

\* isinstance(info, dict) and "thread_ts" in info and "channel" in info
IsThreadRecord(v) == v.isDict /\ v.hasTs /\ v.hasCh

\* A variant in which the first item with a key keeps it.
RECURSIVE ReverseOfFirstWins(_)
ReverseOfFirstWins(entries) ==
    IF entries = <<>> THEN <<>>
    ELSE LET e == Head(entries)
             rest == ReverseOfFirstWins(Tail(entries))
         IN  IF IsThreadRecord(e.val)
             THEN (ThreadKey(e.val.ch, e.val.ts) :> e.key) @@ rest
             ELSE rest

\* The loop of _build_reverse_lookup over the items, first to last: a later
\* item overwrites an earlier one with the same key.
RECURSIVE ReverseOf(_)
ReverseOf(entries) ==
    IF entries = <<>> THEN <<>>
    ELSE LET n == Len(entries)
             e == entries[n]
             rest == ReverseOf(SubSeq(entries, 1, n - 1))
         IN  IF IsThreadRecord(e.val)
             THEN (ThreadKey(e.val.ch, e.val.ts) :> e.key) @@ rest
             ELSE rest

\* self.threads.items() raises AttributeError when json.loads gave a list.
BuildRaises(th) == th.kind # "dict"

BuildReverseLookup(th) == ReverseOf(th.entries)

\* A variant that keeps the mapping it has in memory.
ReadTrackerCached == threads

\* self._load_threads() as reload_threads calls it (line 139): the tracker
\* file as it is on disk at that moment.
ReadTracker == LoadThreads(trackerFile)

\* The text of a tracker file: what it parses to and how it is laid out
\* ("compact" on one line, "indent2" as json.dumps(..., indent=2) writes it).
TrackerText(kind, entries, layout) == [kind |-> kind, entries |-> entries, layout |-> layout]

\* A variant that writes the thread records only.
JsonDumpsRecordsOnly(th) ==
    IF th.kind = "dict"
    THEN TrackerText("object", SelectSeq(th.entries, LAMBDA e : IsThreadRecord(e.val)), "indent2")
    ELSE TrackerText("array", <<>>, "indent2")

\* json.dumps(self.threads, indent=2): every item of the dict in order (or the
\* list), laid out with an indent of two.
JsonDumps(th) ==
    IF th.kind = "dict"
    THEN TrackerText("object", th.entries, "indent2")
    ELSE TrackerText("array", <<>>, "indent2")

----------------------------------------------------------------------------
(* handle_message *)

\* An event: thread_ts and channel are strings (<<>> when thread_ts is
\* missing), bot_id is whether the member is there, subtype and user are ""
\* when missing, text is a sequence of characters.
Event(ts, ch, bot, subtype, user, text) ==
    [thread_ts |-> ts, channel |-> ch, bot_id |-> bot, subtype |-> subtype,
     user |-> user, text |-> text]

\* Every combination of thread, sender kind and text from a named user, and
\* the same from an event without a user.
Events ==
    { Event(tc[1], tc[2], bs[1], bs[2], "U1", t) :
        tc \in {<<<<>>, Chan1>>, <<Ts1, Chan1>>, <<Ts2, Chan1>>, <<Ts1, Chan2>>},
        bs \in {<<FALSE, "">>, <<TRUE, "">>, <<FALSE, "bot_message">>},
        t \in {<<>>, <<"sp", "nl">>, <<"sp", "hi", "nl">>} }
    \cup
    { Event(tc[1], tc[2], FALSE, "", "", <<"sp", "hi", "nl">>) :
        tc \in {<<<<>>, Chan1>>, <<Ts1, Chan1>>, <<Ts2, Chan1>>, <<Ts1, Chan2>>} }

NoEvent == Event(<<>>, Chan1, FALSE, "", "", <<>>)

\* What client.users_info(user=...) does: it raises, or it returns a profile
\* with a display_name (maybe empty) and a name.
Lookups ==
    { [ok |-> FALSE, display_name |-> "", name |-> ""],
      [ok |-> TRUE, display_name |-> "Alice", name |-> "alice1"],
      [ok |-> TRUE, display_name |-> "", name |-> "alice1"] }

\* event.get("user", "unknown")
EventUser(e) == IF e.user = "" THEN "unknown" ELSE e.user

\* A variant with no fallback: an empty name when the lookup fails.
DisplayNameNoFallback(user, lk) ==
    IF ~lk.ok THEN ""
    ELSE IF lk.display_name # "" THEN lk.display_name
    ELSE lk.name

\* lines 209-213: profile.get("display_name") or name; the user on any exception
DisplayName(user, lk) ==
    IF ~lk.ok THEN user
    ELSE IF lk.display_name # "" THEN lk.display_name
    ELSE lk.name

\* A variant that looks at bot_id only.
IsBotMessageByIdOnly(e) == e.bot_id

\* event.get("bot_id") or event.get("subtype") == "bot_message"
IsBotMessage(e) == e.bot_id \/ e.subtype = "bot_message"

Idle(e) == [event |-> e, plan |-> PlanA, user |-> "", display |-> "", looked |-> FALSE, lookupOk |-> FALSE]

NoWrite == [done |-> FALSE, file |-> GetFeedbackFile(PlanA), ts |-> 0, user |-> "", msg |-> <<>>]

Snapshot == [files |-> files, tracker |-> trackerFile, threads |-> threads, now |-> now]

\* handle_message up to the call of users_info (lines 183-206).  An event
\* that is discarded leaves nothing behind but how it ended.
HandleMessage(e) ==
    /\ pc = "idle"
    /\ handled < MaxEvents
    /\ handled' = handled + 1
    /\ atStart' = Snapshot
    /\ wrote' = NoWrite
    /\ UNCHANGED <<files, now, orig, log, trackerFile, acks, changes>>
    /\ UNCHANGED <<lockVars, rd>>
    /\ IF e.thread_ts = <<>>
       THEN /\ result' = "no_thread"
            /\ cur' = Idle(NoEvent)
            /\ UNCHANGED <<threads, threadToPlan, pc>>
       ELSE LET th == ReadTracker
                key == ThreadKey(e.channel, e.thread_ts)
            IN  /\ threads' = th
                /\ IF BuildRaises(th)
                   THEN /\ result' = "raised"
                        /\ cur' = Idle(NoEvent)
                        /\ UNCHANGED <<threadToPlan, pc>>
                   ELSE LET rev == BuildReverseLookup(th)
                        IN  /\ threadToPlan' = rev
                            /\ IF key \notin DOMAIN rev
                               THEN /\ result' = "untracked"
                                    /\ cur' = Idle(NoEvent)
                                    /\ pc' = pc
                               ELSE IF IsBotMessage(e)
                               THEN /\ result' = "bot"
                                    /\ cur' = Idle(NoEvent)
                                    /\ pc' = pc
                               ELSE IF Strip(e.text) = <<>>
                               THEN /\ result' = "blank"
                                    /\ cur' = Idle(NoEvent)
                                    /\ pc' = pc
                               ELSE /\ result' = "running"
                                    /\ cur' = [Idle(e) EXCEPT !.plan = rev[key],
                                                               !.user = EventUser(e)]
                                    /\ pc' = "resolve"

\* lines 209-213: the directory lookup answers lk
ResolveName(lk) ==
    /\ pc = "resolve"
    /\ cur' = [cur EXCEPT !.display = DisplayName(cur.user, lk),
                           !.looked = TRUE, !.lookupOk = lk.ok]
    /\ pc' = "write"
    /\ UNCHANGED <<files, now, orig, log, trackerFile, threads, threadToPlan,
                   result, acks, handled, atStart, wrote, changes>>
    /\ UNCHANGED <<lockVars, rd>>

\* line 218: self._write_feedback(plan_file, display_name, text); datetime.now()
\* gives the minute of the last write or a later one.
WriteStep ==
    /\ pc = "write"
    /\ \E ts \in now..MaxClock :
        /\ now' = ts
        /\ files' = WriteFeedback(files, cur.plan, ts, cur.display, cur.event.text)
        /\ log' = [log EXCEPT ![GetFeedbackFile(cur.plan)] =
                        Append(@, [ts |-> ts, user |-> cur.display, msg |-> cur.event.text])]
        /\ wrote' = [done |-> TRUE, file |-> GetFeedbackFile(cur.plan), ts |-> ts,
                     user |-> cur.display, msg |-> cur.event.text]
    /\ pc' = "ack"
    /\ UNCHANGED <<orig, trackerFile, threads, threadToPlan, cur, result,
                   acks, handled, atStart, changes>>
    /\ UNCHANGED <<lockVars, rd>>

\* A variant that undoes the write when say(...) raises.
AckStepWithRollback(ok) ==
    /\ pc = "ack"
    /\ acks' = IF ok
               THEN Append(acks, [thread_ts |-> cur.event.thread_ts, name |-> wrote.file.name])
               ELSE acks
    /\ files' = IF ok THEN files ELSE atStart.files
    /\ result' = IF ok THEN "acked" ELSE "ack_failed"
    /\ pc' = "idle"
    /\ UNCHANGED <<now, orig, log, trackerFile, threads, threadToPlan, cur,
                   handled, atStart, wrote, changes>>
    /\ UNCHANGED <<lockVars, rd>>

\* lines 221-227: say(...) delivers the acknowledgment, or raises and is logged
AckStep(ok) ==
    /\ pc = "ack"
    /\ acks' = IF ok
               THEN Append(acks, [thread_ts |-> cur.event.thread_ts, name |-> wrote.file.name])
               ELSE acks
    /\ result' = IF ok THEN "acked" ELSE "ack_failed"
    /\ pc' = "idle"
    /\ UNCHANGED <<files, now, orig, log, trackerFile, threads, threadToPlan, cur,
                   handled, atStart, wrote, changes>>
    /\ UNCHANGED <<lockVars, rd>>

\* A sibling process rewrites the tracker file.
TrackerChange ==
    /\ changes < MaxChanges
    /\ changes' = changes + 1
    /\ \E t \in TrackerFiles \ {trackerFile} : trackerFile' = t
    /\ UNCHANGED <<files, now, orig, log, threads, threadToPlan, pc, cur, result,
                   acks, handled, atStart, wrote>>
    /\ UNCHANGED <<lockVars, rd>>

BotIdle ==
    /\ pc = "idle"
    /\ cur = Idle(NoEvent)
    /\ result = "none"
    /\ acks = <<>>
    /\ handled = 0
    /\ wrote = NoWrite
    /\ changes = 0

----------------------------------------------------------------------------
(* The PID-file singleton *)

\* A bot process is named by its pid; pids are not reused.
Procs == 1..NumProcs

\* Every process opens the PID file at most once, so creates at most one inode.
Inodes == 1..NumProcs

NoStatus == [running |-> FALSE, pid |-> 0, deleted |-> FALSE]

Live(p) == proc[p] \notin {"start", "dead"}

\* A free inode number for a file open() creates.
FreshInode ==
    CHOOSE i \in Inodes : i # pidFile /\ \A p \in Procs : handle[p] # i

\* line 232: open(self.pid_file, 'w') creates the file or truncates it
AcquireOpen(p) ==
    /\ proc[p] = "start"
    /\ LET i == IF pidFile = 0 THEN FreshInode ELSE pidFile
       IN  /\ pidFile' = i
           /\ written' = [written EXCEPT ![i] = 0]
           /\ handle' = [handle EXCEPT ![p] = i]
    /\ proc' = [proc EXCEPT ![p] = "opened"]
    /\ UNCHANGED <<flock, chk, status, crashed>>
    /\ UNCHANGED <<feedbackVars, botVars, rd>>

\* line 233: flock(LOCK_EX | LOCK_NB); when it raises, _acquire_pid_lock
\* returns False (lines 237-238)
AcquireFlock(p) ==
    /\ proc[p] = "opened"
    /\ IF flock[handle[p]] = 0
       THEN /\ flock' = [flock EXCEPT ![handle[p]] = p]
            /\ proc' = [proc EXCEPT ![p] = "locked"]
       ELSE /\ proc' = [proc EXCEPT ![p] = "failed"]
            /\ UNCHANGED flock
    /\ UNCHANGED <<handle, pidFile, written, chk, status, crashed>>
    /\ UNCHANGED <<feedbackVars, botVars, rd>>

\* lines 234-236: write(str(os.getpid())), flush, return True; run() registers
\* the release at exit (line 267)
AcquireWrite(p) ==
    /\ proc[p] = "locked"
    /\ written' = [written EXCEPT ![handle[p]] = p]
    /\ proc' = [proc EXCEPT ![p] = "running"]
    /\ UNCHANGED <<handle, pidFile, flock, chk, status, crashed>>
    /\ UNCHANGED <<feedbackVars, botVars, rd>>

\* lines 262-264: _acquire_pid_lock returned False, run() exits; no release
\* was registered, the descriptor is closed with the process
ExitFailed(p) ==
    /\ proc[p] = "failed"
    /\ proc' = [proc EXCEPT ![p] = "dead"]
    /\ handle' = [handle EXCEPT ![p] = 0]
    /\ UNCHANGED <<pidFile, written, flock, chk, status, crashed>>
    /\ UNCHANGED <<feedbackVars, botVars, rd>>

\* lines 244-245, at exit: flock(LOCK_UN) and close()
ReleaseUnlock(p) ==
    /\ proc[p] = "running"
    /\ flock' = [flock EXCEPT ![handle[p]] = IF @ = p THEN 0 ELSE @]
    /\ handle' = [handle EXCEPT ![p] = 0]
    /\ proc' = [proc EXCEPT ![p] = "unlocked"]
    /\ UNCHANGED <<pidFile, written, chk, status, crashed>>
    /\ UNCHANGED <<feedbackVars, botVars, rd>>

\* line 246, at exit: self.pid_file.unlink(missing_ok=True); the process ends
ReleaseUnlink(p) ==
    /\ proc[p] = "unlocked"
    /\ pidFile' = 0
    /\ proc' = [proc EXCEPT ![p] = "dead"]
    /\ UNCHANGED <<handle, written, flock, chk, status, crashed>>
    /\ UNCHANGED <<feedbackVars, botVars, rd>>

\* A variant in which the lock of a killed process stays held.
CrashKeepsLock(p) ==
    /\ Live(p)
    /\ proc' = [proc EXCEPT ![p] = "dead"]
    /\ handle' = [handle EXCEPT ![p] = 0]
    /\ crashed' = IF proc[p] = "running" THEN crashed \cup {p} ELSE crashed
    /\ UNCHANGED <<pidFile, written, flock, chk, status>>
    /\ UNCHANGED <<feedbackVars, botVars, rd>>

\* The process is killed: nothing registered at exit runs, the system closes
\* its descriptor and with it drops its lock.
Crash(p) ==
    /\ Live(p)
    /\ proc' = [proc EXCEPT ![p] = "dead"]
    /\ flock' = [i \in Inodes |-> IF flock[i] = p THEN 0 ELSE flock[i]]
    /\ handle' = [handle EXCEPT ![p] = 0]
    /\ crashed' = IF proc[p] = "running" THEN crashed \cup {p} ELSE crashed
    /\ UNCHANGED <<pidFile, written, chk, status>>
    /\ UNCHANGED <<feedbackVars, botVars, rd>>

\* int(pid_file.read_text().strip()) and os.kill(pid, 0) both succeed
PidIsAlive == written[pidFile] # 0 /\ proc[written[pidFile]] # "dead"

\* is_bot_running up to its return or to the except clause (lines 287-297)
IsBotRunning ==
    /\ chk = "idle"
    /\ IF pidFile = 0
       THEN /\ status' = NoStatus
            /\ chk' = "idle"
       ELSE IF PidIsAlive
       THEN /\ chk' = "getpid"
            /\ UNCHANGED status
       ELSE /\ chk' = "unlink"
            /\ UNCHANGED status
    /\ UNCHANGED <<proc, handle, pidFile, written, flock, crashed>>
    /\ UNCHANGED <<feedbackVars, botVars, rd>>

\* A variant of the except clause that returns False and leaves the file.
IsBotRunningNoUnlink ==
    /\ chk = "unlink"
    /\ status' = [running |-> FALSE, pid |-> 0, deleted |-> FALSE]
    /\ chk' = "idle"
    /\ UNCHANGED <<proc, handle, pidFile, written, flock, crashed>>
    /\ UNCHANGED <<feedbackVars, botVars, rd>>

\* lines 298-300: pid_file.unlink(missing_ok=True); return False
IsBotRunningUnlink ==
    /\ chk = "unlink"
    /\ pidFile' = 0
    /\ status' = [running |-> FALSE, pid |-> 0, deleted |-> pidFile # 0]
    /\ chk' = "idle"
    /\ UNCHANGED <<proc, handle, written, flock, crashed>>
    /\ UNCHANGED <<feedbackVars, botVars, rd>>

\* get_bot_pid (lines 305-315), called by main after is_bot_running returned
\* True (lines 328-330); pid 0 stands for None
GetBotPid ==
    /\ chk = "getpid"
    /\ status' = [running |-> TRUE,
                  pid |-> IF pidFile # 0 /\ PidIsAlive THEN written[pidFile] ELSE 0,
                  deleted |-> FALSE]
    /\ chk' = "idle"
    /\ UNCHANGED <<proc, handle, pidFile, written, flock, crashed>>
    /\ UNCHANGED <<feedbackVars, botVars, rd>>

LockIdle ==
    /\ proc = [p \in Procs |-> "start"]
    /\ handle = [p \in Procs |-> 0]
    /\ pidFile = 0
    /\ written = [i \in Inodes |-> 0]
    /\ flock = [i \in Inodes |-> 0]
    /\ chk = "idle"
    /\ status = NoStatus
    /\ crashed = {}

----------------------------------------------------------------------------
(* Two calls of _write_feedback at a time *)

\* The calls of _write_feedback that run at the same time, in two handler
\* threads or two processes.
Calls == {1, 2}

CallUsers == <<"w1", "w2">>

CallMessages == <<<<"a">>, <<"b", "nl", "c">>>>

\* A call that has not started; seen is where every call was when this
\* one read the file.
NotStarted ==
    [pc |-> "start", content |-> <<>>, ts |-> 0, seen |-> [v \in Calls |-> "start"]]

CallsIdle == rd = [w \in Calls |-> NotStarted]

----------------------------------------------------------------------------
(* The feedback writer on its own: any initial document, then appends *)

OldBulletX == <<BulletHead(0, "old"), Word("x")>>
OldBulletY == <<SP, BulletHead(0, "old"), Word("y")>>

LineKinds == {<<>>, <<Title("plan")>>, <<PENDING>>, <<PROCESSED>>, OldBulletX, OldBulletY}

RECURSIVE DocsOfLines(_)
DocsOfLines(n) ==
    IF n = 0 THEN {<<>>}
    ELSE {d \o l \o <<NL>> : d \in DocsOfLines(n - 1), l \in LineKinds}

InitialDocs == UNION {DocsOfLines(n) : n \in 0..MaxLines}

WriterUsers == {"alice"}

WriterMessages == {<<"a">>, <<"b", "nl", "c">>}

NoFiles == [f \in FeedbackPaths |-> Absent]

NoLog == [f \in FeedbackPaths |-> <<>>]

Appends == Len(log[GetFeedbackFile(PlanA)])

InitFeedback ==
    /\ \E d \in {Absent} \cup {File(t) : t \in InitialDocs} :
            files = [NoFiles EXCEPT ![GetFeedbackFile(PlanA)] = d]
    /\ now = 0
    /\ orig = files
    /\ log = NoLog
    /\ trackerFile = Tracker("missing", <<>>)
    /\ threads = LoadThreads(trackerFile)
    /\ threadToPlan = BuildReverseLookup(threads)
    /\ BotIdle
    /\ atStart = Snapshot
    /\ LockIdle
    /\ CallsIdle

\* One call of _write_feedback(plan_file, user, message); datetime.now()
\* gives the minute of the last call or a later one.
AppendFeedback(plan, user, msg) ==
    /\ Appends < MaxAppends
    /\ \E ts \in now..MaxClock :
        /\ now' = ts
        /\ files' = WriteFeedback(files, plan, ts, user, msg)
        /\ log' = [log EXCEPT ![GetFeedbackFile(plan)] =
                        Append(@, [ts |-> ts, user |-> user, msg |-> msg])]
    /\ UNCHANGED orig
    /\ UNCHANGED botVars
    /\ UNCHANGED <<lockVars, rd>>

AppendAny == \E u \in WriterUsers, m \in WriterMessages : AppendFeedback(PlanA, u, m)

NextFeedback == AppendAny

SpecFeedback == InitFeedback /\ [][NextFeedback]_vars

----------------------------------------------------------------------------
(* The bot: events arrive one at a time, the tracker file changes under it *)

SampleDocs ==
    { Absent,
      File(<<Title("plan"), NL>>),
      File(<<Title("plan"), NL, NL, PENDING, NL>> \o OldBulletX \o <<NL, NL, PROCESSED, NL>>
            \o OldBulletY \o <<NL>>) }

\* The state after RalphSlackBot.__init__ (lines 103-104) has returned.
Init ==
    /\ \E d \in SampleDocs : files = [NoFiles EXCEPT ![GetFeedbackFile(PlanA)] = d]
    /\ now = 0
    /\ orig = files
    /\ log = NoLog
    /\ trackerFile \in {t \in TrackerFiles : ~BuildRaises(LoadThreads(t))}
    /\ threads = LoadThreads(trackerFile)
    /\ threadToPlan = BuildReverseLookup(threads)
    /\ BotIdle
    /\ atStart = Snapshot
    /\ LockIdle
    /\ CallsIdle

Deliver == \E e \in Events : HandleMessage(e)

Resolve == \E lk \in Lookups : ResolveName(lk)

Ack == \E ok \in BOOLEAN : AckStep(ok)

Next == Deliver \/ Resolve \/ WriteStep \/ Ack \/ TrackerChange

Spec == Init /\ [][Next]_vars

----------------------------------------------------------------------------
(* The singleton on its own: bot processes and the status command *)

InitLock ==
    /\ LockIdle
    /\ CallsIdle
    /\ files = NoFiles
    /\ now = 0
    /\ orig = files
    /\ log = NoLog
    /\ trackerFile = Tracker("missing", <<>>)
    /\ threads = LoadThreads(trackerFile)
    /\ threadToPlan = BuildReverseLookup(threads)
    /\ BotIdle
    /\ atStart = Snapshot

Acquire == \E p \in Procs : AcquireOpen(p) \/ AcquireFlock(p) \/ AcquireWrite(p)

Release == \E p \in Procs : ExitFailed(p) \/ ReleaseUnlock(p) \/ ReleaseUnlink(p)

Kill == \E p \in Procs : Crash(p)

StatusCommand == IsBotRunning \/ IsBotRunningUnlink \/ GetBotPid

NextLock == Acquire \/ Release \/ Kill \/ StatusCommand

SpecLock == InitLock /\ [][NextLock]_vars

\* The bot processes without the status command, which takes no lock and
\* ends no process.
NextLockRun == Acquire \/ Release \/ Kill

\* A process that has opened the PID file goes on to flock it, and one that
\* has the lock goes on to write its pid: lines 232-236 run one after the
\* other.  Starting a process, ending one and killing one are up to others.
FairLock ==
    \A p \in Procs : WF_vars(AcquireFlock(p)) /\ WF_vars(AcquireWrite(p))

SpecLockFair == InitLock /\ [][NextLockRun]_vars /\ FairLock

----------------------------------------------------------------------------
(* The registry on its own: any tracker file, then reloads, saves and rewrites
   of the file by sibling processes *)

\* {"channel": ch} with no "thread_ts"
NoThreadTs(ch) == Val(TRUE, FALSE, TRUE, <<>>, ch)

\* Channel ids and message timestamps are Slack's: none contains a ":".
RegistryVals ==
    {Thread(Chan1, Ts1), Thread(Chan2, Ts1), NoChannel(Ts1), NoThreadTs(Chan1), NotADict}

Keys(entries) == {entries[i].key : i \in 1..Len(entries)}

\* The objects of at most n members, each plan file a key at most once.
RECURSIVE ObjectsOf(_)
ObjectsOf(n) ==
    IF n = 0 THEN {<<>>}
    ELSE LET shorter == ObjectsOf(n - 1)
         IN  shorter \cup
             UNION { {Append(es, Entry(p, v)) : p \in Plans \ Keys(es), v \in RegistryVals} :
                        es \in {x \in shorter : Len(x) = n - 1} }

RegistryFiles ==
    {TrackerText("missing", <<>>, "compact"), TrackerText("garbage", <<>>, "compact")}
    \cup {TrackerText("object", es, "compact") : es \in ObjectsOf(MaxEntries)}

DropAt(entries, i) == SubSeq(entries, 1, i - 1) \o SubSeq(entries, i + 1, Len(entries))

\* What a sibling process may leave in place of file: nothing, something that
\* is not JSON, a JSON array, or the object with a member more or a member less.
SiblingTexts(file) ==
    LET es == IF file.kind = "object" THEN file.entries ELSE <<>>
        more == IF Len(es) < MaxEntries
                THEN {Append(es, Entry(p, v)) : p \in Plans \ Keys(es), v \in RegistryVals}
                ELSE {}
        less == {DropAt(es, i) : i \in 1..Len(es)}
    IN  {TrackerText("missing", <<>>, "compact"), TrackerText("garbage", <<>>, "compact"),
         TrackerText("array", <<>>, "compact")}
        \cup {TrackerText("object", x, "compact") : x \in more \cup less}

\* reload_threads (lines 137-140): self.threads is assigned, then the index is
\* rebuilt unless _build_reverse_lookup raises.
ReloadThreads ==
    /\ pc = "idle"
    /\ atStart' = Snapshot
    /\ threads' = ReadTracker
    /\ IF BuildRaises(threads')
       THEN /\ result' = "raised"
            /\ UNCHANGED threadToPlan
       ELSE /\ result' = "reloaded"
            /\ threadToPlan' = BuildReverseLookup(threads')
    /\ UNCHANGED <<files, now, orig, log, trackerFile, pc, cur, acks, handled,
                   wrote, changes>>
    /\ UNCHANGED <<lockVars, rd>>

\* _save_threads (lines 131-135): the file is written, then the index is
\* rebuilt unless _build_reverse_lookup raises.
SaveThreads ==
    /\ pc = "idle"
    /\ atStart' = Snapshot
    /\ trackerFile' = JsonDumps(threads)
    /\ IF BuildRaises(threads)
       THEN /\ result' = "save_raised"
            /\ UNCHANGED threadToPlan
       ELSE /\ result' = "saved"
            /\ threadToPlan' = BuildReverseLookup(threads)
    /\ UNCHANGED <<files, now, orig, log, threads, pc, cur, acks, handled,
                   wrote, changes>>
    /\ UNCHANGED <<lockVars, rd>>

SiblingWrite ==
    /\ changes < MaxChanges
    /\ changes' = changes + 1
    /\ \E t \in SiblingTexts(trackerFile) \ {trackerFile} : trackerFile' = t
    /\ UNCHANGED <<files, now, orig, log, threads, threadToPlan, pc, cur, result,
                   acks, handled, atStart, wrote>>
    /\ UNCHANGED <<lockVars, rd>>

\* The state after RalphSlackBot.__init__ (lines 103-104) has returned.
InitRegistry ==
    /\ trackerFile \in RegistryFiles
    /\ threads = LoadThreads(trackerFile)
    /\ threadToPlan = BuildReverseLookup(threads)
    /\ BotIdle
    /\ files = NoFiles
    /\ now = 0
    /\ orig = files
    /\ log = NoLog
    /\ atStart = Snapshot
    /\ LockIdle
    /\ CallsIdle

NextRegistry == ReloadThreads \/ SaveThreads \/ SiblingWrite

SpecRegistry == InitRegistry /\ [][NextRegistry]_vars

----------------------------------------------------------------------------
(* Two calls of _write_feedback on one document, step by step *)

\* lines 149-157: the timestamp is taken and the file is read, or the
\* skeleton is taken when there is no file
CallRead(w) ==
    /\ rd[w].pc = "start"
    /\ \E ts \in now..MaxClock :
        /\ now' = ts
        /\ rd' = [rd EXCEPT ![w] = [pc |-> "read",
                                    content |-> ReadContent(files, PlanA),
                                    ts |-> ts,
                                    seen |-> [v \in Calls |-> rd[v].pc]]]
    /\ UNCHANGED <<files, orig, log>>
    /\ UNCHANGED <<botVars, lockVars>>

\* line 172, write_text: open(mode="w") creates the file or empties it
CallOpen(w) ==
    /\ rd[w].pc = "read"
    /\ files' = [files EXCEPT ![GetFeedbackFile(PlanA)] = File(<<>>)]
    /\ rd' = [rd EXCEPT ![w].pc = "opened"]
    /\ UNCHANGED <<now, orig, log>>
    /\ UNCHANGED <<botVars, lockVars>>

\* line 172, write_text: the new content is written from the start of the
\* file, over what another call may have written since it was emptied, and
\* the file is closed
CallWrite(w) ==
    /\ rd[w].pc = "opened"
    /\ LET f == GetFeedbackFile(PlanA)
           new == NewContent(rd[w].content, rd[w].ts, CallUsers[w], CallMessages[w])
           old == files[f].text
       IN  /\ files' = [files EXCEPT ![f] = File(new \o SubSeq(old, Len(new) + 1, Len(old)))]
           /\ log' = [log EXCEPT ![f] = Append(@, [ts |-> rd[w].ts, user |-> CallUsers[w],
                                                     msg |-> CallMessages[w]])]
    /\ rd' = [rd EXCEPT ![w].pc = "done"]
    /\ UNCHANGED <<now, orig>>
    /\ UNCHANGED <<botVars, lockVars>>

InitRace ==
    /\ \E d \in SampleDocs : files = [NoFiles EXCEPT ![GetFeedbackFile(PlanA)] = d]
    /\ now = 0
    /\ orig = files
    /\ log = NoLog
    /\ trackerFile = Tracker("missing", <<>>)
    /\ threads = LoadThreads(trackerFile)
    /\ threadToPlan = BuildReverseLookup(threads)
    /\ BotIdle
    /\ atStart = Snapshot
    /\ LockIdle
    /\ CallsIdle

NextRace == \E w \in Calls : CallRead(w) \/ CallOpen(w) \/ CallWrite(w)

SpecRace == InitRace /\ [][NextRace]_vars

----------------------------------------------------------------------------
(* Claims about the feedback writer (SpecFeedback) *)

\* The document the first call started from (the skeleton for a missing file).
OrigText(f) == IF orig[f].exists THEN orig[f].text ELSE Skeleton([stem |-> f.name[1]])

\* C1: on a document that has a "## Pending" and a "## Processed" section,
\* after any sequence of appends the Pending bullets are the original ones
\* plus exactly one per call (as a multiset), the Processed bullets are the
\* original ones, and the text of the Processed section is unchanged.
C1_AppendPreservesBullets ==
    \A f \in FeedbackPaths :
        (orig[f].exists /\ HasBothSections(orig[f].text)) =>
            /\ files[f].exists
            /\ SeqToBag(PendingBullets(files[f].text)) =
                  SeqToBag(PendingBullets(orig[f].text)) (+) SeqToBag(BulletLines(log[f]))
            /\ ProcessedBullets(files[f].text) = ProcessedBullets(orig[f].text)
            /\ ProcessedText(files[f].text) = ProcessedText(orig[f].text)

\* Two appends to a document with a bullet in Pending and one in Processed.
C1_Witness ==
    \E f \in FeedbackPaths :
        /\ orig[f].exists /\ HasBothSections(orig[f].text)
        /\ PendingBullets(orig[f].text) # <<>>
        /\ ProcessedBullets(orig[f].text) # <<>>
        /\ Len(log[f]) = 2

\* C2 as claimed: the new bullet goes to the end of the Pending body, so the
\* Pending bullets are the original ones followed by the new ones in call order.
C2_BulletsInCallOrder ==
    \A f \in FeedbackPaths :
        (orig[f].exists /\ HasBothSections(orig[f].text)) =>
            PendingBullets(files[f].text) =
                PendingBullets(orig[f].text) \o BulletLines(log[f])

\* C2 as amended: the new bullet goes to the start of the Pending body, on
\* the line right after the first "## Pending", so the Pending bullets are the
\* new ones in reverse call order followed by the original ones.
C2_NewestBulletFirst ==
    \A f \in FeedbackPaths :
        (CountKind(OrigText(f), "pending") > 0 /\ log[f] # <<>>) =>
            LET t == files[f].text
                i == FirstIndex(t, "pending")
                b == log[f][Len(log[f])]
                new == <<NL>> \o Bullet(b.ts, b.user, b.msg)
            IN  /\ i = FirstIndex(OrigText(f), "pending")
                /\ SubSeq(t, i + 1, i + Len(new)) = new
                /\ PendingBullets(t) =
                     Reverse(BulletLines(log[f])) \o PendingBullets(OrigText(f))

\* Two different bullets appended to a document whose Pending had a bullet.
C2_Witness ==
    \E f \in FeedbackPaths :
        /\ orig[f].exists /\ HasBothSections(orig[f].text)
        /\ PendingBullets(orig[f].text) # <<>>
        /\ Len(log[f]) = 2
        /\ log[f][1] # log[f][2]

----------------------------------------------------------------------------
(* Claims about handle_message (Spec) *)

WellFormed(v) == v.isDict /\ v.hasTs /\ v.hasCh

\* The tasks whose record in the tracker file t has the event's channel and thread.
MatchedPlans(e, t) ==
    IF t.kind # "object" THEN {}
    ELSE { t.entries[i].key : i \in { j \in 1..Len(t.entries) :
                /\ WellFormed(t.entries[j].val)
                /\ t.entries[j].val.ch = e.channel
                /\ t.entries[j].val.ts = e.thread_ts } }

Blank(text) == \A i \in 1..Len(text) : text[i] \in {"sp", "nl"}

Automated(e) == e.bot_id \/ e.subtype = "bot_message"

Discardable(e) ==
    \/ e.thread_ts = <<>>
    \/ MatchedPlans(e, trackerFile) = {}
    \/ Automated(e)
    \/ Blank(e.text)

\* The feedback document of a task: same directory, extension replaced.
ExpectedDoc(p) == [dir |-> p.dir, name |-> <<p.stem, ".feedback.md">>]

\* The text a write to f starts from, given the files when the event arrived.
StartText(f) ==
    IF atStart.files[f].exists THEN atStart.files[f].text
    ELSE Skeleton([stem |-> f.name[1]])

Contains(text, part) ==
    \E i \in 0..(Len(text) - Len(part)) : SubSeq(text, i + 1, i + Len(part)) = part

\* fs has, in the Pending section of f, exactly one bullet more than when the
\* event arrived: "- [ts] @author: text"; nothing else in f's sections and no
\* other file has changed.
OneBulletAdded(fs, f, ts, author, text) ==
    /\ fs[f].exists
    /\ Contains(fs[f].text, Bullet(ts, author, text))
    /\ SeqToBag(PendingBullets(fs[f].text)) =
          SeqToBag(PendingBullets(StartText(f)))
            (+) SeqToBag(BulletLines(<<[ts |-> ts, user |-> author, msg |-> text]>>))
    /\ ProcessedBullets(fs[f].text) = ProcessedBullets(StartText(f))
    /\ \A g \in FeedbackPaths \ {f} : fs[g] = atStart.files[g]

\* C7: an event with no thread parent, or whose (channel, thread parent) has no
\* record in the tracker file, or from an automated sender, or with blank text,
\* ends the handler at once with every feedback document unchanged and no
\* acknowledgment sent; with no thread parent the registry is not even reloaded.
C7_DiscardedEventsChangeNothing ==
    [][\A e \in Events :
          (HandleMessage(e) /\ Discardable(e)) =>
              /\ pc' = "idle"
              /\ files' = files
              /\ acks' = acks
              /\ (e.thread_ts = <<>> =>
                    threads' = threads /\ threadToPlan' = threadToPlan)]_vars

\* An event with no thread parent was discarded while the tracker file differed
\* from the registry in memory.
C7_Witness ==
    /\ result = "no_thread"
    /\ threads # LoadThreads(trackerFile)
    /\ files = atStart.files
    /\ acks = <<>>

C9_WriteThenAcknowledge ==
    [][/\ (acks' # acks) =>
            /\ wrote.done
            /\ Contains(files[wrote.file].text, Bullet(wrote.ts, wrote.user, wrote.msg))
            /\ acks' = Append(acks, [thread_ts |-> cur.event.thread_ts,
                                      name |-> ExpectedDoc(cur.plan).name])
       /\ (pc = "ack" /\ pc' = "idle" /\ acks' = acks) =>
            /\ result' = "ack_failed"
            /\ wrote.done
            /\ files' = files
            /\ Contains(files'[wrote.file].text, Bullet(wrote.ts, wrote.user, wrote.msg))]_vars

\* The acknowledgment failed after a bullet was written.
C9_Witness ==
    /\ result = "ack_failed"
    /\ wrote.done
    /\ acks = <<>>
    /\ Contains(files[wrote.file].text, Bullet(wrote.ts, wrote.user, wrote.msg))

\* C10: when the directory lookup fails for an accepted event that names its
\* user, the handler goes on: the author is the raw user identifier, the write
\* and the acknowledgment steps can be taken, exactly one bullet with that
\* author is written, and the handler ends acknowledged or with the
\* acknowledgment failure logged.
C10_LookupFailureFallsBack ==
    (cur.looked /\ ~cur.lookupOk /\ cur.event.user # "") =>
        /\ cur.display = cur.event.user
        /\ result \in {"running", "acked", "ack_failed"}
        /\ (pc = "write" => ENABLED WriteStep)
        /\ (pc = "ack" => ENABLED (\E ok \in BOOLEAN : AckStep(ok)))
        /\ (pc \in {"ack", "idle"} =>
                /\ wrote.done
                /\ OneBulletAdded(files, wrote.file, wrote.ts, cur.event.user, cur.event.text))
        /\ (pc = "idle" => result \in {"acked", "ack_failed"})

\* The lookup failed and the handler ended with the bullet written.
C10_Witness ==
    /\ cur.looked /\ ~cur.lookupOk /\ cur.event.user = "U1"
    /\ pc = "idle"
    /\ wrote.done /\ wrote.user = "U1"

----------------------------------------------------------------------------
(* Claims about the PID-file singleton (SpecLock) *)

\* The processes whose _acquire_pid_lock returned True and that run the bot.
Holders == {p \in Procs : proc[p] = "running"}

\* C3: at most one live process at a time has had acquire return true.
C3_AtMostOneHolder == Cardinality(Holders) <= 1

\* C4: when acquire has returned false to q while p, which is still running,
\* holds the lock on the file q opened, the PID file is still that file, still
\* holds p's pid, and p still holds the lock.
C4_FailedAcquireHasNoSideEffects ==
    \A q \in Procs : proc[q] = "failed" =>
        \A p \in Holders :
            (handle[p] = handle[q] /\ flock[handle[p]] = p) =>
                /\ pidFile = handle[p]
                /\ written[pidFile] = p

\* C5: whenever a process that acquired the lock is running, is_bot_running
\* finds it running and deletes nothing, and get_bot_pid gives the pid of such
\* a process.
C5_HolderIsReportedRunning ==
    [][(Holders # {}) =>
          /\ (IsBotRunning => chk' = "getpid")
          /\ (GetBotPid => (status'.running /\ status'.pid \in Holders))
          /\ ((chk # "idle" /\ chk' = "idle") => pidFile' = pidFile)]_vars

\* C6: when the PID file is absent, is_bot_running reports not running and
\* touches nothing; when a holder was killed and no process is live, a PID
\* file that is present is found stale; and is_bot_running then deletes it and
\* reports not running.
C6_StalePidFileIsCleaned ==
    [][/\ (IsBotRunning /\ pidFile = 0) =>
            /\ chk' = "idle"
            /\ status' = [running |-> FALSE, pid |-> 0, deleted |-> FALSE]
            /\ UNCHANGED <<pidFile, written, flock>>
       /\ (IsBotRunning /\ pidFile # 0 /\ crashed # {} /\ \A q \in Procs : ~Live(q)) =>
            chk' = "unlink"
       /\ (chk = "unlink" /\ chk' = "idle") =>
            /\ pidFile' = 0
            /\ ~status'.running
            /\ status'.deleted = (pidFile # 0)]_vars

\* A second process was refused, the holder was killed, and the status command
\* then deleted the PID file and reported not running.
C6_Witness ==
    /\ crashed # {}
    /\ \E q \in Procs : proc[q] = "dead" /\ q \notin crashed
    /\ \A q \in Procs : ~Live(q)
    /\ chk = "idle"
    /\ status = [running |-> FALSE, pid |-> 0, deleted |-> TRUE]
    /\ pidFile = 0

----------------------------------------------------------------------------
(* Claims about the thread registry (SpecRegistry) *)

EmptyRegistry == [kind |-> "dict", entries |-> <<>>]

\* The positions in a mapping of the values that are objects with both a
\* thread identifier and a channel.
RecordsAt(th) == {i \in 1..Len(th.entries) : WellFormed(th.entries[i].val)}

PairAt(th, i) == <<th.entries[i].val.ch, th.entries[i].val.ts>>

RecordPairs(th) == {PairAt(th, i) : i \in RecordsAt(th)}

\* The pairs looked up: every channel (or none) with every thread (or none).
LookupPairs == {<<c, t>> : c \in {<<>>, Chan1, Chan2}, t \in {<<>>, Ts1, Ts2}}

\* The last operation of the bot on the registry was a load that went through
\* (the constructor's, or a reload).
Loaded == result \in {"none", "reloaded"}

C12_MalformedTrackerLoadsEmpty ==
    (result \in {"reloaded", "raised"} /\ atStart.tracker.kind # "object") =>
        /\ result = "reloaded"
        /\ threads = EmptyRegistry
        /\ \A p \in LookupPairs : ThreadKey(p[1], p[2]) \notin DOMAIN threadToPlan

----------------------------------------------------------------------------
(* More claims about the feedback writer (SpecFeedback) *)

\* The number of lines of a document that are a header of kind k.
HeaderLines(text, k) ==
    LET ls == SplitLines(text)
    IN  Cardinality({i \in 1..Len(ls) : LineKind(ls[i]) = k})

NoSections(text) == CountKind(text, "pending") = 0 /\ CountKind(text, "processed") = 0

\* C13: after one append to an existing document with neither marker, the
\* document is the original text followed by a "## Pending" header and the new
\* bullet: it has one Pending header with the new bullet as its only bullet,
\* and no Processed header.
C13_PendingAddedToPlainDocument ==
    \A f \in FeedbackPaths :
        (orig[f].exists /\ NoSections(orig[f].text) /\ Len(log[f]) = 1) =>
            LET t == files[f].text
                o == orig[f].text
                b == log[f][1]
            IN  /\ files[f].exists
                /\ Len(t) > Len(o)
                /\ SubSeq(t, 1, Len(o)) = o
                /\ HeaderLines(t, "pending") = 1
                /\ CountKind(t, "pending") = 1
                /\ PendingBullets(t) = <<BulletLine(b)>>
                /\ Contains(SubSeq(t, Len(o) + 1, Len(t)), Bullet(b.ts, b.user, b.msg))
                /\ HeaderLines(t, "processed") = 0
                /\ CountKind(t, "processed") = 0

\* One append to a document of a title and an old bullet line, with no marker.
C13_Witness ==
    \E f \in FeedbackPaths :
        /\ orig[f].exists /\ NoSections(orig[f].text)
        /\ \E i \in 1..Len(orig[f].text) : orig[f].text[i].k = "head"
        /\ \E i \in 1..Len(orig[f].text) : orig[f].text[i].k = "title"
        /\ Len(log[f]) = 1
        /\ PendingBullets(files[f].text) = <<BulletLine(log[f][1])>>

\* "## Pending" comes before "## Processed" in the text.
PendingFirst(text) ==
    /\ FirstIndex(text, "pending") > 0
    /\ FirstIndex(text, "processed") > 0
    /\ FirstIndex(text, "pending") < FirstIndex(text, "processed")

\* C14: after any sequence of appends to a document (the skeleton of a title,
\* one empty Pending and one empty Processed section when the file is missing),
\* the document has as many "## Processed" header lines as at the start, as
\* many "## Pending" header lines as at the start, or one when it had none,
\* and Pending still precedes Processed when it did at the start.
C14_HeadersKept ==
    /\ Skeleton(PlanA) = <<Title("plan"), NL, NL, PENDING, NL, NL, PROCESSED, NL>>
    /\ \A f \in FeedbackPaths :
        log[f] # <<>> =>
            LET t == files[f].text
                o == OrigText(f)
            IN  /\ files[f].exists
                /\ HeaderLines(t, "processed") = HeaderLines(o, "processed")
                /\ CountKind(t, "processed") = CountKind(o, "processed")
                /\ HeaderLines(t, "pending") =
                      IF HeaderLines(o, "pending") = 0 THEN 1 ELSE HeaderLines(o, "pending")
                /\ CountKind(t, "pending") = HeaderLines(t, "pending")
                /\ (PendingFirst(o) => PendingFirst(t))

\* Two appends to a missing document, and two to a document with a Processed
\* section and no Pending section.
C14_Witness ==
    \E f \in FeedbackPaths :
        /\ Len(log[f]) = 2
        /\ \/ (~orig[f].exists /\ PendingFirst(files[f].text))
           \/ /\ orig[f].exists
              /\ HeaderLines(orig[f].text, "pending") = 0
              /\ HeaderLines(orig[f].text, "processed") = 1
              /\ HeaderLines(files[f].text, "pending") = 1

----------------------------------------------------------------------------
(* More claims about handle_message (Spec) *)

\* C15: when a thread reply is handled, the mapping in memory becomes that of
\* the tracker file as it is on disk at that moment; unless building the index
\* raises (the file holds a JSON array, and the event is then not routed at
\* all), the index is rebuilt from it and the event is routed by it: dropped
\* as untracked exactly when the file has no record for its channel and
\* thread, taken up only for a task whose record in the file has them.
C15_RoutedByTheFileOnDisk ==
    [][\A e \in Events :
          (HandleMessage(e) /\ e.thread_ts # <<>>) =>
              /\ threads' = LoadThreads(trackerFile)
              /\ IF BuildRaises(LoadThreads(trackerFile))
                 THEN pc' = "idle" /\ result' = "raised" /\ files' = files
                 ELSE /\ threadToPlan' = BuildReverseLookup(LoadThreads(trackerFile))
                      /\ (result' = "untracked") <=> (MatchedPlans(e, trackerFile) = {})
                      /\ (MatchedPlans(e, trackerFile) # {}) =>
                            result' \in {"bot", "blank", "running"}
                      /\ (pc' = "resolve") =>
                            cur'.plan \in MatchedPlans(e, trackerFile)]_vars

\* A reply in a thread that a sibling added to the tracker file after the bot
\* had loaded it was taken up for the task of the added record.
C15_Witness ==
    /\ pc = "resolve"
    /\ changes > 0
    /\ ThreadKey(cur.event.channel, cur.event.thread_ts)
          \notin DOMAIN BuildReverseLookup(atStart.threads)
    /\ MatchedPlans(cur.event, atStart.tracker) = {cur.plan}
    /\ threads = LoadThreads(atStart.tracker)
    /\ threads # atStart.threads

----------------------------------------------------------------------------
(* More claims about the thread registry (SpecRegistry) *)

\* The positions of the records of a mapping that have the pair p.
RecordsWith(th, p) == {i \in RecordsAt(th) : PairAt(th, i) = p}

Max(S) == CHOOSE x \in S : \A y \in S : y <= x

\* C16: after a load, for every (channel, thread) pair that some records of
\* the mapping have, the reverse index holds one task for the pair: the key
\* of the last of those records in the order of the tracker object; and a
\* load of the same tracker content gives the same index again.
C16_LastRecordWins ==
    /\ Loaded =>
        \A p \in RecordPairs(threads) :
            /\ ThreadKey(p[1], p[2]) \in DOMAIN threadToPlan
            /\ threadToPlan[ThreadKey(p[1], p[2])] =
                  threads.entries[Max(RecordsWith(threads, p))].key
    /\ (result = "reloaded" /\ atStart.threads = threads) =>
            threadToPlan = BuildReverseLookup(atStart.threads)
    /\ (Loaded /\ ~BuildRaises(LoadThreads(trackerFile))) =>
            (LoadThreads(trackerFile) = threads =>
                BuildReverseLookup(LoadThreads(trackerFile)) = threadToPlan)

\* The same content was loaded a second time: two records for two tasks share
\* a pair, and the index names the task of the second.
C16_Witness ==
    /\ result = "reloaded"
    /\ atStart.threads = threads
    /\ atStart.tracker = trackerFile
    /\ Len(threads.entries) = 2
    /\ RecordsWith(threads, <<Chan1, Ts1>>) = {1, 2}
    /\ threads.entries[1].key # threads.entries[2].key
    /\ threadToPlan[ThreadKey(Chan1, Ts1)] = threads.entries[2].key
    /\ Cardinality(DOMAIN threadToPlan) = 1

----------------------------------------------------------------------------
(* More claims about the PID-file singleton (SpecLockFair) *)

\* The processes that hold a lock: they have locked the file they opened.
LockHolders == {p \in Procs : proc[p] \in {"locked", "running"}}

\* C17: a lock is held only by a live process that has locked the file and not
\* released it, so the lock of a process that has exited or was killed is
\* free; acquire returns false only while such a process holds the lock on
\* the file that was opened; a process that has opened the PID file when every
\* other process has ended goes on to have acquire return true, unless it is
\* killed; and a process to which acquire returned false ends without
\* unlocking, deleting or rewriting anything.
C17_LockFreedAndAcquiredAgain ==
    /\ [](\A i \in Inodes : flock[i] # 0 =>
              (flock[i] \in LockHolders /\ handle[flock[i]] = i))
    /\ [][\A p \in Procs :
            /\ (proc[p] = "opened" /\ proc'[p] = "failed") =>
                  (flock[handle[p]] \in LockHolders \ {p})
            /\ (proc[p] = "failed") =>
                  /\ proc'[p] \in {"failed", "dead"}
                  /\ (proc'[p] = "dead" =>
                        (pidFile' = pidFile /\ flock' = flock /\ written' = written))]_vars
    /\ \A p \in Procs :
          (proc[p] = "opened" /\ \A q \in Procs \ {p} : proc[q] = "dead")
              ~> (proc[p] \in {"running", "dead"})
    /\ \A p \in Procs :
          (proc[p] = "opened") ~> (proc[p] \in {"running", "failed", "dead"})

\* The holder was killed, a second process had been refused and has ended, and
\* a third process then acquired the lock on the PID file the holder left.
C17_Witness ==
    \E p \in Procs :
        /\ proc[p] = "running"
        /\ crashed # {}
        /\ \A q \in Procs \ {p} : proc[q] = "dead"
        /\ \E q \in Procs \ {p} : q \notin crashed
        /\ pidFile = handle[p]
        /\ flock[pidFile] = p
        /\ written[pidFile] = p

----------------------------------------------------------------------------
(* Claims about two calls of _write_feedback at a time (SpecRace) *)

RaceFile == GetFeedbackFile(PlanA)

BothDone == \A w \in Calls : rd[w].pc = "done"

\* The call that wrote the file last, and the other one.
LastCall == CHOOSE w \in Calls : CallUsers[w] = log[RaceFile][Len(log[RaceFile])].user

FirstCall == CHOOSE w \in Calls : w # LastCall

\* What a call set out to write, and the line of its bullet.
NewOf(w) == NewContent(rd[w].content, rd[w].ts, CallUsers[w], CallMessages[w])

CallBullet(w) == BulletLine([ts |-> rd[w].ts, user |-> CallUsers[w], msg |-> CallMessages[w]])

InPending(w, text) ==
    \E i \in 1..Len(PendingBullets(text)) : PendingBullets(text)[i] = CallBullet(w)

\* The second call read the file when the first had written it.
OneAfterTheOther == rd[LastCall].seen[FirstCall] = "done"

\* Each call read the file before the other had opened it for writing.
BothReadFirst ==
    /\ rd[LastCall].seen[FirstCall] \in {"start", "read"}
    /\ rd[FirstCall].seen[LastCall] \in {"start", "read"}

IsCallBullet(line) == \E w \in Calls : line = CallBullet(w)

\* C18: when two calls on one document have ended: if they ran one after the
\* other, both bullets are in Pending; if both read before either wrote, the
\* document is what the call that wrote last set out to write, with its
\* bullet and without the other's; and in every case the bullets that were in
\* Pending and in Processed before are still there and the headers are as
\* many as a single call leaves.
C18_LastWriterWins ==
    BothDone =>
        LET t == files[RaceFile].text
            o == OrigText(RaceFile)
        IN  /\ OneAfterTheOther => (InPending(FirstCall, t) /\ InPending(LastCall, t))
            /\ BothReadFirst =>
                  /\ t = NewOf(LastCall)
                  /\ InPending(LastCall, t)
                  /\ ~InPending(FirstCall, t)
            /\ SelectSeq(PendingBullets(t), LAMBDA l : ~IsCallBullet(l)) = PendingBullets(o)
            /\ ProcessedBullets(t) = ProcessedBullets(o)
            /\ HeaderLines(t, "processed") = HeaderLines(o, "processed")
            /\ HeaderLines(t, "pending") =
                  IF HeaderLines(o, "pending") = 0 THEN 1 ELSE HeaderLines(o, "pending")

----------------------------------------------------------------------------
(* Claims about saving the registry (SpecRegistry) *)

HasOtherValues(th) == \E i \in 1..Len(th.entries) : ~WellFormed(th.entries[i].val)

C20_IndexFollowsMapping ==
    /\ threadToPlan = BuildReverseLookup(threads)
    /\ \A i \in 1..Len(trackerFile.entries) : trackerFile.entries[i].key \in Plans

====
